---- MODULE Spec2Model ----
(***************************************************************************)
(* scripts/generate_todo_issues.py: a grep-style report of TODO/FIXME      *)
(* annotations is parsed line by line into items, each item is given a     *)
(* marker, a context snippet and a (priority, owner, estimate) triple, and *)
(* the items are rendered to todos.csv, one markdown file per item and a   *)
(* README.                                                                 *)
(*                                                                         *)
(* A Python str is a sequence of one-character strings, so that split,     *)
(* strip, substring search, regular expressions and CSV quoting are        *)
(* computed character by character.                                        *)
(***************************************************************************)
EXTENDS Integers, Sequences, FiniteSets, TLC

VARIABLES pc, report, items, csvf, attempts, outdir, arg, ret

vars == <<pc, report, items, csvf, attempts, outdir, arg, ret>>

(***************************************************************************)
(* Characters and str methods                                              *)
(***************************************************************************)
DigitSeq == <<"0","1","2","3","4","5","6","7","8","9">>

UpperSeq == <<"A","B","C","D","E","F","G","H","I","J","K","L","M",
              "N","O","P","Q","R","S","T","U","V","W","X","Y","Z">>

LowerSeq == <<"a","b","c","d","e","f","g","h","i","j","k","l","m",
              "n","o","p","q","r","s","t","u","v","w","x","y","z">>

Range(s) == {s[i] : i \in 1..Len(s)}

Digits == Range(DigitSeq)

UpperSet == Range(UpperSeq)

Letters == UpperSet \cup Range(LowerSeq)

\* str.strip()/rstrip() and int() drop these
Whitespace == {" ", "\t", "\n", "\r"}

\* \w of the re module, for \b
WordChars == Letters \cup Digits \cup {"_"}

IndexIn(c, s) == CHOOSE i \in 1..Len(s) : s[i] = c

\* str.lower() of one character
LowerChar(c) == IF c \in UpperSet THEN LowerSeq[IndexIn(c, UpperSeq)] ELSE c

\* str.lower()
Lower(s) == [i \in 1..Len(s) |-> LowerChar(s[i])]

DigitVal(c) == IndexIn(c, DigitSeq) - 1

\* s[a:b] for 0 <= a, b <= len(s)
Slice(s, a, b) == IF b <= a THEN <<>> ELSE SubSeq(s, a + 1, b)

\* needle in hay
Contains(hay, needle) ==
    \E i \in 0..(Len(hay) - Len(needle)) : Slice(hay, i, i + Len(needle)) = needle

\* str.rstrip()
RStrip(s) ==
    LET keep == {i \in 1..Len(s) : s[i] \notin Whitespace}
    IN  IF keep = {} THEN <<>>
        ELSE Slice(s, 0, CHOOSE i \in keep : \A j \in keep : j <= i)

\* str.strip()
Strip(s) ==
    LET keep == {i \in 1..Len(s) : s[i] \notin Whitespace}
    IN  IF keep = {} THEN <<>>
        ELSE Slice(s, (CHOOSE i \in keep : \A j \in keep : i <= j) - 1,
                      CHOOSE i \in keep : \A j \in keep : j <= i)

\* str.replace(old, new) for one-character old and new
Replace(s, old, new) == [i \in 1..Len(s) |-> IF s[i] = old THEN new ELSE s[i]]

\* sep.join(parts)
RECURSIVE Join(_, _)
Join(sep, parts) ==
    IF parts = <<>> THEN <<>>
    ELSE IF Len(parts) = 1 THEN parts[1]
    ELSE parts[1] \o sep \o Join(sep, Tail(parts))

\* str(n) of a natural number
RECURSIVE NatStr(_)
NatStr(n) == IF n < 10 THEN <<DigitSeq[n + 1]>> ELSE NatStr(n \div 10) \o <<DigitSeq[(n % 10) + 1]>>

\* str(n)
IntStr(n) == IF n < 0 THEN <<"-">> \o NatStr(-n) ELSE NatStr(n)

\* f"{i:04d}"
Pad4(i) ==
    LET d == NatStr(i)
    IN  IF Len(d) >= 4 THEN d ELSE [k \in 1..(4 - Len(d)) |-> "0"] \o d

(***************************************************************************)
(* parse_line                                                              *)
(***************************************************************************)
\* line.split(':', 2)
Split2(line) ==
    LET colons == {i \in 1..Len(line) : line[i] = ":"}
    IN  IF colons = {} THEN <<line>>
        ELSE LET c1 == CHOOSE i \in colons : \A j \in colons : i <= j
                 later == colons \ {c1}
             IN  IF later = {} THEN <<Slice(line, 0, c1 - 1), Slice(line, c1, Len(line))>>
                 ELSE LET c2 == CHOOSE i \in later : \A j \in later : i <= j
                      IN  <<Slice(line, 0, c1 - 1), Slice(line, c1, c2 - 1),
                            Slice(line, c2, Len(line))>>

\* the digits of an int() literal: digits, single underscores only between digits
IsDigitRun(s) ==
    /\ s # <<>>
    /\ \A i \in 1..Len(s) : s[i] \in Digits \cup {"_"}
    /\ s[1] # "_" /\ s[Len(s)] # "_"
    /\ \A i \in 1..(Len(s) - 1) : ~(s[i] = "_" /\ s[i + 1] = "_")

\* whether int(s) returns rather than raising ValueError
IsIntLiteral(s) ==
    LET t == Strip(s)
    IN  /\ t # <<>>
        /\ IF t[1] \in {"+", "-"} THEN IsDigitRun(Tail(t)) ELSE IsDigitRun(t)

RECURSIVE DigitsVal(_)
DigitsVal(s) ==
    IF s = <<>> THEN 0
    ELSE IF s[Len(s)] = "_" THEN DigitsVal(Slice(s, 0, Len(s) - 1))
    ELSE 10 * DigitsVal(Slice(s, 0, Len(s) - 1)) + DigitVal(s[Len(s)])

\* int(s), for s with IsIntLiteral(s)
IntOf(s) ==
    LET t == Strip(s)
    IN  IF t[1] = "-" THEN 0 - DigitsVal(Tail(t))
        ELSE IF t[1] = "+" THEN DigitsVal(Tail(t))
        ELSE DigitsVal(t)

\* try: int(line_no) except ValueError: 0
LineNoOf(s) == IF IsIntLiteral(s) THEN IntOf(s) ELSE 0

\* lines 48-58, on the parts of the split line
ParseParts(parts) ==
    IF Len(parts) < 3 THEN <<>>
    ELSE <<Strip(parts[1]), LineNoOf(Strip(parts[2])),
           IF parts[3] # <<>> THEN RStrip(parts[3]) ELSE <<>>>>

\* a parse_line that rejects a line whose line number is no integer
parse_lineStrict(line) ==
    IF Len(Split2(line)) = 3 /\ ~IsIntLiteral(Strip(Split2(line)[2])) THEN <<>>
    ELSE ParseParts(Split2(line))

\* parse_line(line): <<>> is None, else <<file_path, line_no, content>>
parse_line(line) == ParseParts(Split2(line))

(***************************************************************************)
(* Marker detection (main, lines 89-95)                                    *)
(***************************************************************************)
MARKERS == <<<<"T","O","D","O">>, <<"F","I","X","M","E">>, <<"S","T","U","B">>, <<"p","l","a","c","e","h","o","l","d","e","r">>, <<"T","e","m","p","o","r","a","r","y">>, <<"h","a","c","k">>>>

NOTE == <<"N","O","T","E">>

\* a search that ignores case
RECURSIVE FirstMarkerAnyCase(_, _)
FirstMarkerAnyCase(content, k) ==
    IF k > Len(MARKERS) THEN <<>>
    ELSE IF Contains(Lower(content), Lower(MARKERS[k])) THEN MARKERS[k]
    ELSE FirstMarkerAnyCase(content, k + 1)

\* for m in MARKERS: if m in content: marker = m; break
RECURSIVE FirstMarker(_, _)
FirstMarker(content, k) ==
    IF k > Len(MARKERS) THEN <<>>
    ELSE IF Contains(content, MARKERS[k]) THEN MARKERS[k]
    ELSE FirstMarker(content, k + 1)

\* without the NOTE fallback
DetectMarkerNoFallback(content) == FirstMarker(content, 1)

\* marker = marker or 'NOTE'
DetectMarker(content) ==
    LET marker == FirstMarker(content, 1)
    IN  IF marker # <<>> THEN marker ELSE NOTE

(***************************************************************************)
(* PRIORITY_MAP and guess_props                                            *)
(***************************************************************************)
\* one alternative of a pattern: a literal, with or without a trailing \b
Lit(s) == [s |-> s, wb |-> FALSE]

LitB(s) == [s |-> s, wb |-> TRUE]

PRIORITY_MAP == <<
    [rx |-> <<Lit(<<"s","y","s","c","a","l","l","s">>), Lit(<<"p","r","o","c","e","s","s">>), Lit(<<"t","h","r","e","a","d">>), Lit(<<"s","i","g","n","a","l">>), Lit(<<"f","u","t","e","x">>),
              Lit(<<"s","c","h","e","d">>), Lit(<<"e","x","e","c","v","e">>), Lit(<<"f","o","r","k">>), Lit(<<"w","a","i","t","p","i","d">>)>>,
     pr |-> <<"C","r","i","t","i","c","a","l">>, owner |-> <<"K","e","r","n","e","l"," ","E","n","g","i","n","e","e","r">>, hrs |-> 40],
    [rx |-> <<Lit(<<"v","f","s">>), Lit(<<"f","s">>), Lit(<<"i","n","o","d","e">>), Lit(<<"d","i","r","e","c","t","o","r","y">>), Lit(<<"e","x","t","4">>)>>,
     pr |-> <<"C","r","i","t","i","c","a","l">>, owner |-> <<"F","i","l","e","s","y","s","t","e","m","s"," ","E","n","g","i","n","e","e","r">>, hrs |-> 40],
    [rx |-> <<Lit(<<"m","e","m","o","r","y">>), Lit(<<"m","m","a","p">>), Lit(<<"m","i","n","c","o","r","e">>), Lit(<<"m","l","o","c","k">>), Lit(<<"m","u","n","l","o","c","k">>),
              Lit(<<"p","a","g","e">>), LitB(<<"m","m">>), Lit(<<"a","d","v","a","n","c","e","d","_","m","m","a","p">>)>>,
     pr |-> <<"H","i","g","h">>, owner |-> <<"M","e","m","o","r","y","/","M","M"," ","E","n","g","i","n","e","e","r">>, hrs |-> 32],
    [rx |-> <<Lit(<<"s","e","c","u","r","i","t","y">>), Lit(<<"p","e","r","m","i","s","s","i","o","n">>), Lit(<<"s","e","c","c","o","m","p">>), Lit(<<"s","e","l","i","n","u","x">>), Lit(<<"a","s","l","r">>),
              Lit(<<"s","m","a","p">>), Lit(<<"s","m","e","p">>), Lit(<<"c","a","p">>)>>,
     pr |-> <<"C","r","i","t","i","c","a","l">>, owner |-> <<"S","e","c","u","r","i","t","y"," ","E","n","g","i","n","e","e","r">>, hrs |-> 40],
    [rx |-> <<Lit(<<"d","r","i","v","e","r">>), Lit(<<"v","i","r","t","i","o">>), Lit(<<"d","e","v","i","c","e","_","m","a","n","a","g","e","r">>), Lit(<<"d","r","i","v","e","r"," ","b","i","n","d","i","n","g">>),
              Lit(<<"p","r","o","b","e">>)>>,
     pr |-> <<"H","i","g","h">>, owner |-> <<"D","r","i","v","e","r"," ","E","n","g","i","n","e","e","r">>, hrs |-> 36],
    [rx |-> <<Lit(<<"z","e","r","o","_","c","o","p","y">>), Lit(<<"i","o","_","u","r","i","n","g">>), Lit(<<"s","p","l","i","c","e">>), Lit(<<"s","e","n","d","f","i","l","e">>),
              Lit(<<"p","e","r","f","o","r","m","a","n","c","e">>), Lit(<<"b","e","n","c","h","m","a","r","k">>)>>,
     pr |-> <<"M","e","d","i","u","m">>, owner |-> <<"P","e","r","f","o","r","m","a","n","c","e"," ","E","n","g","i","n","e","e","r">>, hrs |-> 24],
    [rx |-> <<Lit(<<"g","r","a","p","h","i","c","s">>), Lit(<<"g","u","i">>), Lit(<<"i","n","p","u","t">>), Lit(<<"h","i","t"," ","t","e","s","t","i","n","g">>)>>,
     pr |-> <<"L","o","w">>, owner |-> <<"G","r","a","p","h","i","c","s"," ","E","n","g","i","n","e","e","r">>, hrs |-> 16],
    [rx |-> <<Lit(<<"t","e","s","t">>), Lit(<<"p","l","a","c","e","h","o","l","d","e","r">>), Lit(<<"i","n","t","e","g","r","a","t","i","o","n","_","t","e","s","t">>), Lit(<<"b","e","n","c","h">>)>>,
     pr |-> <<"L","o","w">>, owner |-> <<"Q","A","/","T","e","s","t","e","r">>, hrs |-> 8] >>

DefaultProps == <<<<"M","e","d","i","u","m">>, <<"E","n","g","i","n","e","e","r">>, 16>>

\* the alternative matches at offset i of ctx, whose lower-cased form is lc (re.I)
LitAt(alt, lc, i) ==
    /\ i + Len(alt.s) <= Len(lc)
    /\ lc[i + 1] = alt.s[1]
    /\ Slice(lc, i, i + Len(alt.s)) = alt.s
    /\ alt.wb => (i + Len(alt.s) = Len(lc) \/ lc[i + Len(alt.s) + 1] \notin WordChars)

\* some alternative of rx matches somewhere in ctx, given lower-cased as lc
SearchLower(rx, lc) ==
    \E i \in 0..(Len(lc) - 1) : \E a \in 1..Len(rx) : LitAt(rx[a], lc, i)

\* rx.search(ctx)
Search(rx, ctx) == SearchLower(rx, Lower(ctx))

\* a loop that does not return at the first match: the last matching rule wins
RECURSIVE LastRule(_, _)
LastRule(ctx, k) ==
    IF k > Len(PRIORITY_MAP) THEN DefaultProps
    ELSE LET later == LastRule(ctx, k + 1)
         IN  IF later # DefaultProps THEN later
             ELSE IF Search(PRIORITY_MAP[k].rx, ctx)
                  THEN <<PRIORITY_MAP[k].pr, PRIORITY_MAP[k].owner, PRIORITY_MAP[k].hrs>>
             ELSE DefaultProps

\* for rx, pr, owner, hrs in PRIORITY_MAP: if rx.search(ctx): return pr, owner, hrs
RECURSIVE FirstRule(_, _)
FirstRule(ctx, k) ==
    IF k > Len(PRIORITY_MAP) THEN DefaultProps
    ELSE IF Search(PRIORITY_MAP[k].rx, ctx)
         THEN <<PRIORITY_MAP[k].pr, PRIORITY_MAP[k].owner, PRIORITY_MAP[k].hrs>>
    ELSE FirstRule(ctx, k + 1)

\* guess_props(path, text)
guess_props(path, text) == FirstRule(path \o <<" ">> \o text, 1)

(***************************************************************************)
(* Context snippet (main, lines 96-109)                                    *)
(***************************************************************************)
Max(a, b) == IF a >= b THEN a ELSE b

Min(a, b) == IF a <= b THEN a ELSE b

\* seq[start:end] with Python's rule for an out-of-range or negative index
PySlice(seq, start, end) ==
    LET n == Len(seq)
        lo == IF start < 0 THEN Max(0, start + n) ELSE Min(start, n)
        hi == IF end < 0 THEN Max(0, end + n) ELSE Min(end, n)
    IN  Slice(seq, lo, hi)

\* the numbered lines of the snippet: <<i+1, s>> for i, s in enumerate(snippet, start=start)
SnippetLines(all_lines, line_no) ==
    LET start == Max(0, line_no - 4)
        end == Min(Len(all_lines), line_no + 3)
        snippet == PySlice(all_lines, start, end)
    IN  [k \in 1..Len(snippet) |-> <<start + k, snippet[k]>>]

\* '\n'.join(f"{i+1}: {s}" ...)
RenderSnippet(numbered) ==
    Join(<<"\n">>, [k \in 1..Len(numbered) |-> IntStr(numbered[k][1]) \o <<":"," ">> \o numbered[k][2]])

FILE_NOT_FOUND == <<"(","f","i","l","e"," ","n","o","t"," ","f","o","u","n","d",")">>

\* f"(failed to read file: {e})": the exception's text is the operating system's
READ_FAILED == <<"(","f","a","i","l","e","d"," ","t","o"," ","r","e","a","d"," ","f","i","l","e",":"," ","e",")">>

(***************************************************************************)
(* sanitize_title                                                          *)
(***************************************************************************)
\* the characters [^0-9A-Za-z-_ ]+ leaves in place
TitleChars == Letters \cup Digits \cup {"-", "_", " "}

\* re.sub(r"[ \t]+", ' ', t)
RECURSIVE CollapseBlanks(_)
CollapseBlanks(t) ==
    IF t = <<>> THEN <<>>
    ELSE IF t[1] \in {" ", "\t"}
         THEN IF Len(t) > 1 /\ t[2] \in {" ", "\t"} THEN CollapseBlanks(Tail(t))
              ELSE <<" ">> \o CollapseBlanks(Tail(t))
    ELSE <<t[1]>> \o CollapseBlanks(Tail(t))

TITLE_MAX == 60

TITLE_SOURCE_MAX == 80

\* line 63: re.sub(r"[^0-9A-Za-z-_ ]+", '', text).strip()
KeepTitleChars(text) ==
    LET Kept(c) == c \in TitleChars
    IN  Strip(SelectSeq(text, Kept))

\* lines 65-66: if len(t) > 60: t = t[:60].rstrip()
Truncate(t) == IF Len(t) > TITLE_MAX THEN RStrip(Slice(t, 0, TITLE_MAX)) ELSE t

\* lines 67-69 without the 'todo' fallback
FinishTitleNoFallback(t) == Replace(t, " ", "_")

\* lines 67-69: if not t: return 'todo'; return t.replace(' ', '_')
FinishTitle(t) == IF t = <<>> THEN <<"t","o","d","o">> ELSE Replace(t, " ", "_")

sanitize_title(text) == FinishTitle(Truncate(CollapseBlanks(KeepTitleChars(text))))


(***************************************************************************)
(* todos.csv: csv.DictWriter with the default (excel) dialect              *)
(***************************************************************************)
FIELDNAMES == <<<<"i","d">>, <<"f","i","l","e">>, <<"l","i","n","e">>, <<"m","a","r","k","e","r">>, <<"c","o","n","t","e","n","t">>, <<"c","o","n","t","e","x","t">>, <<"p","r","i","o","r","i","t","y">>,
                <<"o","w","n","e","r">>, <<"e","s","t","i","m","a","t","e","_","h","o","u","r","s">>, <<"l","a","b","e","l","s">>>>

\* QUOTE_MINIMAL: the characters that make the writer quote a field
CsvSpecial == {",", "\"", "\r", "\n"}

\* doublequote: a quote character inside a field is written twice
RECURSIVE DoubleQuotes(_)
DoubleQuotes(v) ==
    IF v = <<>> THEN <<>>
    ELSE (IF v[1] = "\"" THEN <<"\"","\"">> ELSE <<v[1]>>) \o DoubleQuotes(Tail(v))

\* a writer that quotes only for the delimiter and the quote character
CsvFieldLineBreakUnquoted(v) ==
    IF \E i \in 1..Len(v) : v[i] \in {",", "\""}
    THEN <<"\"">> \o DoubleQuotes(v) \o <<"\"">>
    ELSE v

\* one field as the writer emits it
CsvField(v) ==
    IF \E i \in 1..Len(v) : v[i] \in CsvSpecial
    THEN <<"\"">> \o DoubleQuotes(v) \o <<"\"">>
    ELSE v

\* writer.writerow(fields): delimiter ',' and lineterminator '\r\n'
CsvRecord(fields) ==
    Join(<<",">>, [k \in 1..Len(fields) |-> CsvField(fields[k])]) \o <<"\r","\n">>

\* the id enumerate(items, start=1) gives the k-th item in the CSV loop
CsvId(k) == k

\* item_row = dict(item); item_row['id'] = i, in fieldnames order, each value str()'d
ItemRow(i, item) ==
    <<IntStr(i), item.file, IntStr(item.line), item.marker, item.content, item.context,
      item.priority, item.owner, IntStr(item.estimate_hours), item.labels>>

RECURSIVE CsvRows(_, _)
CsvRows(its, k) ==
    IF k > Len(its) THEN <<>>
    ELSE CsvRecord(ItemRow(CsvId(k), its[k])) \o CsvRows(its, k + 1)

\* writer.writeheader(), then one writerow per item
CsvText(its) == CsvRecord(FIELDNAMES) \o CsvRows(its, 1)

(***************************************************************************)
(* csv.reader with the same dialect, over a file opened with newline=''    *)
(***************************************************************************)
\* one character in one parser state: the next state, field and fields
ReaderChar(r, c) ==
    LET st == IF r.st = "START_RECORD" /\ c \notin {"\r", "\n"} THEN "START_FIELD" ELSE r.st
        save == [r EXCEPT !.fields = Append(r.fields, r.field), !.field = <<>>]
        add == [r EXCEPT !.field = Append(r.field, c)]
    IN  CASE st = "START_RECORD" -> [r EXCEPT !.st = "EAT_CRNL"]
          [] st = "START_FIELD" ->
                IF c \in {"\r", "\n"} THEN [save EXCEPT !.st = "EAT_CRNL"]
                ELSE IF c = "\"" THEN [r EXCEPT !.st = "IN_QUOTED_FIELD"]
                ELSE IF c = "," THEN [save EXCEPT !.st = "START_FIELD"]
                ELSE [add EXCEPT !.st = "IN_FIELD"]
          [] st = "IN_FIELD" ->
                IF c \in {"\r", "\n"} THEN [save EXCEPT !.st = "EAT_CRNL"]
                ELSE IF c = "," THEN [save EXCEPT !.st = "START_FIELD"]
                ELSE add
          [] st = "IN_QUOTED_FIELD" ->
                IF c = "\"" THEN [r EXCEPT !.st = "QUOTE_IN_QUOTED_FIELD"] ELSE add
          [] st = "QUOTE_IN_QUOTED_FIELD" ->
                IF c = "\"" THEN [add EXCEPT !.st = "IN_QUOTED_FIELD"]
                ELSE IF c = "," THEN [save EXCEPT !.st = "START_FIELD"]
                ELSE IF c \in {"\r", "\n"} THEN [save EXCEPT !.st = "EAT_CRNL"]
                ELSE [add EXCEPT !.st = "IN_FIELD"]
          [] OTHER ->
                IF c \in {"\r", "\n"} THEN r ELSE [r EXCEPT !.err = TRUE]

\* the end of a physical line; a record ends unless a quoted field is open
ReaderEol(r) ==
    IF r.err THEN r ELSE
    LET r1 == IF r.st \in {"START_FIELD", "IN_FIELD", "QUOTE_IN_QUOTED_FIELD"}
              THEN [r EXCEPT !.fields = Append(r.fields, r.field), !.field = <<>>,
                             !.st = "START_RECORD"]
              ELSE IF r.st = "EAT_CRNL" THEN [r EXCEPT !.st = "START_RECORD"]
              ELSE r
    IN  IF r1.st = "START_RECORD"
        THEN [r1 EXCEPT !.rows = Append(r1.rows, r1.fields), !.fields = <<>>, !.field = <<>>]
        ELSE r1

\* a physical line ends after '\n', after a '\r' not followed by '\n', and at the end
LineEndsAt(text, i) ==
    \/ text[i] = "\n"
    \/ text[i] = "\r" /\ ~(i < Len(text) /\ text[i + 1] = "\n")
    \/ i = Len(text)

\* the lines iterating the file yields, each with its line ending
PhysicalLines(text) ==
    LET ends == {i \in 1..Len(text) : LineEndsAt(text, i)}
        EndOf(k) == CHOOSE e \in ends : Cardinality({x \in ends : x <= e}) = k
    IN  [k \in 1..Cardinality(ends) |->
            Slice(text, IF k = 1 THEN 0 ELSE EndOf(k - 1), EndOf(k))]

\* the characters of one line, from the i-th on
RECURSIVE ReaderLine(_, _, _)
ReaderLine(line, i, r) ==
    IF r.err \/ i > Len(line) THEN r
    ELSE ReaderLine(line, i + 1, ReaderChar(r, line[i]))

\* line after line, from the k-th on; at the end of the file an open field is kept
RECURSIVE ReaderLines(_, _, _)
ReaderLines(lines, k, r) ==
    IF r.err THEN r
    ELSE IF k > Len(lines)
         THEN IF r.st = "IN_QUOTED_FIELD" \/ r.field # <<>>
              THEN [r EXCEPT !.rows = Append(r.rows, Append(r.fields, r.field))]
              ELSE r
    ELSE ReaderLines(lines, k + 1, ReaderEol(ReaderLine(lines[k], 1, r)))

\* list(csv.reader(f)): the rows, with err when the reader raises csv.Error
ReadCsv(text) ==
    ReaderLines(PhysicalLines(text), 1,
                [st |-> "START_RECORD", field |-> <<>>, fields |-> <<>>,
                 rows |-> <<>>, err |-> FALSE])

(***************************************************************************)
(* The project tree under ROOT and the report the run reads                *)
(***************************************************************************)
\* the most lines one report holds
MaxLines == 3

\* the number of lines of the one source file of the tree
FileLines == 9

\* ROOT/a.c: its text after read_text().splitlines()
SourceLines == [k \in 1..FileLines |-> <<"s">> \o NatStr(k)]

\* (ROOT / file_path).exists()
Exists(file_path) == file_path \in {<<"a",".","c">>, <<>>, <<"u","i">>}

\* read_text() returns: a directory raises, which main catches
Readable(file_path) == file_path = <<"a",".","c">>

\* the lines a report may hold, without their '\n'
ReportLines == {
    <<>>,
    <<"R","E","A","D","M","E">>,
    <<"a",".","c",":","5">>,
    <<"k","e","r","n","e","l","/","s","c","h","e","d",".","c",":","1","2","0",":"," "," "," "," ","/","/"," ","T","O","D","O",":"," ","i","m","p","l","e","m","e","n","t"," ","r","e","a","l"," ","s","c","h","e","d","u","l","e","r">>,
    <<"u","i","/","b","u","t","t","o","n",".","c",":","1","0",":"," "," "," "," ","/","/"," ","p","l","a","c","e","h","o","l","d","e","r"," ","h","i","t"," ","t","e","s","t","i","n","g">>,
    <<"a",".","c",":","-","4",":","x",","," ","\"","y","\"">>,
    <<"a",".","c",":","x",":","F","I","X","M","E",":"," ","a",":","b">>,
    <<":","5",":","!","!">>,
    <<"a",".","c",":","5",":">>,
    <<"a",".","c",":"," ","7"," ",":"," "," ","h","a","c","k"," "," ">> }

(***************************************************************************)
(* main                                                                    *)
(***************************************************************************)
\* lines 96-109: the context of one parsed line
ContextOf(file_path, line_no) ==
    IF Exists(file_path)
    THEN IF Readable(file_path)
         THEN RenderSnippet(SnippetLines(SourceLines, line_no))
         ELSE READ_FAILED
    ELSE FILE_NOT_FOUND

\* lines 112-124: the item dict
ItemWith(file_path, line_no, content, marker, props) ==
    [file |-> file_path,
     line |-> line_no,
     marker |-> marker,
     content |-> Strip(content),
     context |-> ContextOf(file_path, line_no),
     priority |-> props[1],
     owner |-> props[2],
     estimate_hours |-> props[3],
     labels |-> Join(<<";">>, <<Lower(props[1]), Lower(marker)>>)]

\* lines 88-124: the item appended for file_path, line_no, content = parsed
ItemOf(file_path, line_no, content) ==
    ItemWith(file_path, line_no, content, DetectMarker(content),
             guess_props(file_path, content))

\* lines 86-124: if not parsed: continue
ItemsOfParsed(parsed) ==
    IF parsed = <<>> THEN <<>> ELSE <<ItemOf(parsed[1], parsed[2], parsed[3])>>

\* lines 82-124: what one line of the report adds to items
ItemsOfLine(ln) == IF ln = <<>> THEN <<>> ELSE ItemsOfParsed(parse_line(ln))

\* enumerate(items) without start=1
DocIdFromZero(k) == k - 1

\* the id enumerate(items, start=1) gives the k-th item in the markdown loop
DocId(k) == k

\* lines 139-144: the file written for an item under its idstr and safe title
DocWith(idstr, safe, item) ==
    [name |-> idstr \o <<"-">> \o safe \o <<".","m","d">>,
     idstr |-> idstr,
     title |-> IF item.content # <<>> THEN item.content
               ELSE <<"T","O","D","O"," ","i","n"," ">> \o item.file \o <<":">> \o IntStr(item.line),
     item |-> item]

\* lines 137-144: the markdown file of the k-th item
DocOf(k, item) ==
    DocWith(Pad4(DocId(k)),
            sanitize_title(Slice(item.content, 0, Min(TITLE_SOURCE_MAX, Len(item.content)))),
            item)

Init ==
    /\ pc = "start"
    /\ report = <<>>
    /\ items = <<>>
    /\ csvf = <<>>
    /\ attempts = <<>>
    /\ outdir = {}
    /\ arg = <<>>
    /\ ret = <<>>

\* lines 73-75: no report, nothing is written
MissingInput ==
    /\ pc = "start"
    /\ pc' = "done"
    /\ UNCHANGED <<report, items, csvf, attempts, outdir, arg, ret>>

\* lines 77-80
OpenInput ==
    /\ pc = "start"
    /\ pc' = "read"
    /\ UNCHANGED <<report, items, csvf, attempts, outdir, arg, ret>>

\* lines 81-124: one pass of the loop over the report
ReadLine ==
    /\ pc = "read"
    /\ Len(report) < MaxLines
    /\ \E ln \in ReportLines :
          /\ report' = Append(report, ln)
          /\ items' = items \o ItemsOfLine(ln)
    /\ UNCHANGED <<pc, csvf, attempts, outdir, arg, ret>>

\* the report is exhausted
EndOfInput ==
    /\ pc = "read"
    /\ pc' = "csv"
    /\ UNCHANGED <<report, items, csvf, attempts, outdir, arg, ret>>

\* lines 127-133; an OSError here is not caught and ends the run
WriteCsv ==
    /\ pc = "csv"
    /\ \/ /\ csvf' = CsvText(items)
          /\ outdir' = outdir \cup {[name |-> <<"t","o","d","o","s",".","c","s","v">>]}
          /\ pc' = "docs"
       \/ /\ pc' = "crashed"
          /\ UNCHANGED <<csvf, outdir>>
    /\ UNCHANGED <<report, items, attempts, arg, ret>>

\* a markdown loop whose write is not inside try/except
WriteDocUncaught ==
    /\ pc = "docs"
    /\ Len(attempts) < Len(items)
    /\ LET doc == DocOf(Len(attempts) + 1, items[Len(attempts) + 1])
       IN  \E ok \in BOOLEAN :
              /\ attempts' = Append(attempts, [doc |-> doc, ok |-> ok])
              /\ outdir' = IF ok THEN {f \in outdir : f.name # doc.name} \cup {doc}
                           ELSE outdir
              /\ pc' = IF ok THEN pc ELSE "crashed"
    /\ UNCHANGED <<report, items, csvf, arg, ret>>

\* lines 136-148: one pass of the markdown loop; the write may raise, which is
\* caught and printed
WriteDoc ==
    /\ pc = "docs"
    /\ Len(attempts) < Len(items)
    /\ LET doc == DocOf(Len(attempts) + 1, items[Len(attempts) + 1])
       IN  \E ok \in BOOLEAN :
              /\ attempts' = Append(attempts, [doc |-> doc, ok |-> ok])
              /\ outdir' = IF ok THEN {f \in outdir : f.name # doc.name} \cup {doc}
                           ELSE outdir
    /\ UNCHANGED <<pc, report, items, csvf, arg, ret>>

\* lines 151-171; an OSError here is not caught
WriteReadme ==
    /\ pc = "docs"
    /\ Len(attempts) = Len(items)
    /\ \/ /\ outdir' = outdir \cup {[name |-> <<"R","E","A","D","M","E",".","m","d">>]}
          /\ pc' = "done"
       \/ /\ pc' = "crashed"
          /\ UNCHANGED outdir
    /\ UNCHANGED <<report, items, csvf, attempts, arg, ret>>

Next ==
    \/ MissingInput
    \/ OpenInput
    \/ ReadLine
    \/ EndOfInput
    \/ WriteCsv
    \/ WriteDoc
    \/ WriteReadme

Spec == Init /\ [][Next]_vars


(***************************************************************************)
(* Claims checked under Spec                                               *)
(***************************************************************************)
README_MD == [name |-> <<"R","E","A","D","M","E",".","m","d">>]

ColonsOf(l) == {i \in 1..Len(l) : l[i] = ":"}

\* the lines of the report with at least two ':'
Structured(lines) ==
    LET Has2(l) == Cardinality(ColonsOf(l)) >= 2
    IN  SelectSeq(lines, Has2)

\* item is the Finding of the line l: its file is the text before the first ':', its
\* annotation text everything after the second ':', both trimmed, and its line
\* number is 0 when the text between the two is no integer
FindingOfLine(item, l) ==
    \E i, j \in ColonsOf(l) :
        /\ i < j
        /\ \A c \in ColonsOf(l) : c = i \/ c >= j
        /\ item.file = Strip(Slice(l, 0, i - 1))
        /\ item.content = Strip(Slice(l, j, Len(l)))
        /\ ~IsIntLiteral(Slice(l, i, j - 1)) => item.line = 0

\* C1: the k-th item is the Finding of the k-th structured line of the report; the
\* CSV holds, after its header, one record per item, the k-th carrying id k and
\* the fields of item k; the k-th markdown file carries id k, zero-padded, in
\* its name and title, and the fields of item k.
C1_IdsSequentialInParseOrder ==
    /\ Len(items) = Len(Structured(report))
    /\ \A k \in 1..Len(items) : FindingOfLine(items[k], Structured(report)[k])
    /\ csvf # <<>> =>
          csvf = CsvRecord(FIELDNAMES)
                 \o Join(<<>>, [k \in 1..Len(items) |->
                        CsvRecord(<<IntStr(k)>> \o Tail(ItemRow(0, items[k])))])
    /\ \A k \in 1..Len(attempts) :
          /\ attempts[k].doc.idstr = Pad4(k)
          /\ Slice(attempts[k].doc.name, 0, 5) = Pad4(k) \o <<"-">>
          /\ attempts[k].doc.item = items[k]

\* C1 witness: a finished run whose report dropped a line and kept two Findings
C1_Witness ==
    /\ pc = "done"
    /\ Len(items) >= 2
    /\ Len(report) > Len(items)
    /\ Len(attempts) = Len(items)
    /\ items[1] # items[2]

\* C3 as stated: every marker is one of the seven upper-case names
C3_MarkerInUpperCaseSet ==
    \A k \in 1..Len(items) :
        items[k].marker \in {<<"T","O","D","O">>, <<"F","I","X","M","E">>, <<"S","T","U","B">>, <<"P","L","A","C","E","H","O","L","D","E","R">>, <<"T","E","M","P","O","R","A","R","Y">>,
                             <<"H","A","C","K">>, <<"N","O","T","E">>}

\* C3 amended: every marker is one of the six keyword literals as the code spells
\* them (placeholder, Temporary and hack are not upper-cased) or NOTE
C3_MarkerInLiteralSet ==
    \A k \in 1..Len(items) :
        items[k].marker \in {<<"T","O","D","O">>, <<"F","I","X","M","E">>, <<"S","T","U","B">>, <<"p","l","a","c","e","h","o","l","d","e","r">>, <<"T","e","m","p","o","r","a","r","y">>,
                             <<"h","a","c","k">>, <<"N","O","T","E">>}

\* C3 witness: a Finding with a lower-case keyword and a Finding with none
C3_Witness ==
    /\ \E k \in 1..Len(items) : items[k].marker = <<"p","l","a","c","e","h","o","l","d","e","r">>
    /\ \E k \in 1..Len(items) : items[k].marker = <<"N","O","T","E">>

\* C4 as stated: every Finding's line number is >= 0
C4_SourceLineNonNegative ==
    \A k \in 1..Len(items) : items[k].line >= 0

\* C5: there is one Finding per report line holding at least two ':', in order, and
\* none for any other line, whatever lines stand before it; its file is the text
\* before the first ':', its annotation text everything after the second ':'
\* (later colons included), and its line number is 0 when the text between is
\* no integer.
C5_OneFindingPerStructuredLine ==
    /\ Len(items) = Cardinality({n \in 1..Len(report) : Cardinality(ColonsOf(report[n])) >= 2})
    /\ \A k \in 1..Len(items) : FindingOfLine(items[k], Structured(report)[k])

\* C5 witness: a two-field line is followed by a line with a non-integer line
\* number and colons in its text, which is kept
C5_Witness ==
    /\ pc = "done"
    /\ \E i, j \in 1..Len(report) :
          /\ i < j
          /\ report[i] = <<"a",".","c",":","5">>
          /\ report[j] = <<"a",".","c",":","x",":","F","I","X","M","E",":"," ","a",":","b">>
    /\ \E k \in 1..Len(items) :
          /\ items[k].line = 0
          /\ items[k].content = <<"F","I","X","M","E",":"," ","a",":","b">>

\* C6 as stated: for a readable file the snippet has at most 7 lines, each a line
\* of the file shown with its own number, which lies in lineNo-3..lineNo+3, and
\* it has exactly 7 lines when that range lies inside the file
C6_SnippetWithinWindow ==
    \A k \in 1..Len(items) :
        (Exists(items[k].file) /\ Readable(items[k].file)) =>
            LET no == items[k].line
                numbered == SnippetLines(SourceLines, no)
            IN  /\ items[k].context = RenderSnippet(numbered)
                /\ Len(numbered) <= 7
                /\ \A n \in 1..Len(numbered) :
                      /\ numbered[n][1] \in (no - 3)..(no + 3)
                      /\ numbered[n][1] \in 1..Len(SourceLines)
                      /\ numbered[n][2] = SourceLines[numbered[n][1]]
                /\ (no - 3 >= 1 /\ no + 3 <= Len(SourceLines)) => Len(numbered) = 7

\* C8: the markdown writes are attempted in id order; a run that got past the CSV
\* and ended, normally or not, has attempted the file of every item; README.md
\* is written only after all of them; and the markdown files in the output
\* directory are exactly those whose own write succeeded.
C8_WriteFailureDoesNotAbort ==
    /\ \A k \in 1..Len(attempts) : attempts[k].doc = DocOf(k, items[k])
    /\ (pc \in {"done", "crashed"} /\ csvf # <<>>) => Len(attempts) = Len(items)
    /\ README_MD \in outdir => Len(attempts) = Len(items)
    /\ (pc = "done" /\ csvf # <<>>) => README_MD \in outdir
    /\ {f \in outdir : "idstr" \in DOMAIN f}
          = {attempts[k].doc : k \in {n \in 1..Len(attempts) : attempts[n].ok}}

\* C8 witness: a finished run in which an earlier write failed and a later one
\* succeeded
C8_Witness ==
    /\ pc = "done"
    /\ README_MD \in outdir
    /\ \E i, j \in 1..Len(attempts) :
          /\ i < j
          /\ ~attempts[i].ok
          /\ attempts[j].ok
          /\ attempts[j].doc \in outdir
          /\ attempts[i].doc \notin outdir


(***************************************************************************)
(* guess_props over bounded paths and texts                                *)
(***************************************************************************)
\* all sequences of at most n elements of S
SeqsUpTo(S, n) == UNION {[1..m -> S] : m \in 0..n}

\* the concatenation of a sequence of strings
Concat(parts) == Join(<<>>, parts)

\* the most fragments one annotation text is made of
MaxTextWords == 2

GuessPaths == {<<>>, <<"a",".","c">>, <<"k","e","r","n","e","l","/","s","c","h","e","d",".","c">>, <<"d","r","i","v","e","r","s","/","n","e","t",".","c">>}

GuessWords == {<<"s","c","h","e","d">>, <<"f","s">>, <<"m","m">>, <<"m","m","a","p">>, <<"c","a","p">>, <<"D","r","i","v","e","r">>, <<"P","R","O","B","E">>, <<"b","e","n","c","h","m","a","r","k">>,
               <<"b","e","n","c","h">>, <<"h","i","t"," ","t","e","s","t","i","n","g">>, <<"t","e","s","t">>, <<"x">>, <<" ">>, <<"_">>}

GuessInit ==
    /\ pc = "call"
    /\ arg \in {[path |-> p, text |-> Concat(ws)] :
                   p \in GuessPaths, ws \in SeqsUpTo(GuessWords, MaxTextWords)}
    /\ ret = <<>>
    /\ report = <<>> /\ items = <<>> /\ csvf = <<>> /\ attempts = <<>> /\ outdir = {}

GuessCall ==
    /\ pc = "call"
    /\ ret' = guess_props(arg.path, arg.text)
    /\ pc' = "return"
    /\ UNCHANGED <<report, items, csvf, attempts, outdir, arg>>

SpecGuess == GuessInit /\ [][GuessCall]_vars

\* the rules whose pattern matches the path-plus-text string
MatchingRules(path, text) ==
    {k \in 1..Len(PRIORITY_MAP) : Search(PRIORITY_MAP[k].rx, path \o <<" ">> \o text)}

\* the least number of a non-empty set
Least(S) == CHOOSE i \in S : \A j \in S : i <= j

\* the triple the k-th rule carries
TripleOf(k) == <<PRIORITY_MAP[k].pr, PRIORITY_MAP[k].owner, PRIORITY_MAP[k].hrs>>

\* r is the right answer for an input that the rules m match
RightTriple(m, r) ==
    /\ m # {} => r = TripleOf(Least(m))
    /\ (m = {}) <=> (r = <<<<"M","e","d","i","u","m">>, <<"E","n","g","i","n","e","e","r">>, 16>>)
    /\ (1 \in m /\ 5 \in m) => r = <<<<"C","r","i","t","i","c","a","l">>, <<"K","e","r","n","e","l"," ","E","n","g","i","n","e","e","r">>, 40>>

\* C2: guess_props returns the triple of the lowest-numbered matching rule, and
\* (Medium, Engineer, 16) exactly when no rule matches; an input matching rules 1
\* and 5 gets (Critical, Kernel Engineer, 40).
C2_FirstMatchingRuleWins ==
    pc = "return" => RightTriple(MatchingRules(arg.path, arg.text), ret)

\* C2 witness: a classified input that rule 1 and rule 5 both match
C2_Witness ==
    /\ pc = "return"
    /\ {1, 5} \subseteq MatchingRules(arg.path, arg.text)
    /\ ret[2] = <<"K","e","r","n","e","l"," ","E","n","g","i","n","e","e","r">>

(***************************************************************************)
(* Marker detection over bounded annotation texts                          *)
(***************************************************************************)
\* the most fragments one annotation text is made of
MaxMarkerWords == 2

MarkerWords == {<<"T","O","D","O">>, <<"F","I","X","M","E">>, <<"S","T","U","B">>, <<"p","l","a","c","e","h","o","l","d","e","r">>, <<"T","e","m","p","o","r","a","r","y">>, <<"h","a","c","k">>,
                <<"t","o","d","o">>, <<"H","a","c","k">>, <<"N","O","T","E">>, <<" ">>, <<"x",":">>}

MarkerInit ==
    /\ pc = "call"
    /\ arg \in {Concat(ws) : ws \in SeqsUpTo(MarkerWords, MaxMarkerWords)}
    /\ ret = <<>>
    /\ report = <<>> /\ items = <<>> /\ csvf = <<>> /\ attempts = <<>> /\ outdir = {}

\* main on the one line "a.c:1:" + arg: the item it appends
MarkerCall ==
    /\ pc = "call"
    /\ ret' = ItemsOfLine(<<"a",".","c",":","1",":">> \o arg)
    /\ pc' = "return"
    /\ UNCHANGED <<report, items, csvf, attempts, outdir, arg>>

SpecMarker == MarkerInit /\ [][MarkerCall]_vars

\* the six keyword literals in the order the claim lists them
KeywordOrder == <<<<"T","O","D","O">>, <<"F","I","X","M","E">>, <<"S","T","U","B">>, <<"p","l","a","c","e","h","o","l","d","e","r">>, <<"T","e","m","p","o","r","a","r","y">>, <<"h","a","c","k">>>>

\* the places in KeywordOrder of the literals that occur in text
KeywordsIn(text) == {k \in 1..Len(KeywordOrder) : Contains(text, KeywordOrder[k])}

\* marker is the right marker for a text in which the literals found occur
RightMarker(found, marker) ==
    /\ found # {} => marker = KeywordOrder[Least(found)]
    /\ (found = {}) <=> (marker = <<"N","O","T","E">>)

\* C9: the Finding's marker is the first of TODO, FIXME, STUB, placeholder,
\* Temporary, hack (in this order) that is a substring of its annotation text,
\* wherever it stands in the text, and NOTE exactly when none of them is.
C9_FirstListedLiteralWins ==
    pc = "return" =>
        /\ Len(ret) = 1
        /\ RightMarker(KeywordsIn(ret[1].content), ret[1].marker)

\* C9 witness: hack stands before TODO in the text and TODO is the marker
C9_Witness ==
    /\ pc = "return"
    /\ ret[1].content = <<"h","a","c","k","T","O","D","O">>
    /\ ret[1].marker = <<"T","O","D","O">>

(***************************************************************************)
(* sanitize_title over bounded texts                                       *)
(***************************************************************************)
\* the most characters before and after the run of letters of a text
MaxAffix == 2

TitleAlphabet == {"a", " ", "!", "_", "\t"}

\* the lengths of the run of letters: none, and around the 60-character limit
PadLens == {0, TITLE_MAX - 2, TITLE_MAX - 1, TITLE_MAX}

TitleInit ==
    /\ pc = "call"
    /\ arg \in {pre \o [k \in 1..n |-> "Z"] \o post :
                   pre \in SeqsUpTo(TitleAlphabet, MaxAffix),
                   post \in SeqsUpTo(TitleAlphabet, MaxAffix),
                   n \in PadLens}
    /\ ret = <<>>
    /\ report = <<>> /\ items = <<>> /\ csvf = <<>> /\ attempts = <<>> /\ outdir = {}

TitleCall ==
    /\ pc = "call"
    /\ ret' = sanitize_title(arg)
    /\ pc' = "return"
    /\ UNCHANGED <<report, items, csvf, attempts, outdir, arg>>

SpecTitle == TitleInit /\ [][TitleCall]_vars

\* C7: the title of any text is non-empty, at most 60 characters long, made only of
\* ASCII letters, digits, '-' and '_', is 'todo' when the text holds none of
\* these, and is its own title.
C7_TitleTotalAndIdempotent ==
    pc = "return" =>
        /\ ret # <<>>
        /\ Len(ret) <= 60
        /\ \A i \in 1..Len(ret) : ret[i] \in Letters \cup Digits \cup {"-", "_"}
        /\ (\A i \in 1..Len(arg) : arg[i] \notin Letters \cup Digits \cup {"-", "_"})
              => ret = <<"t","o","d","o">>
        /\ sanitize_title(ret) = ret

\* C7 witness: a text longer than 60 characters whose 60th kept character is a
\* blank, so that the title is cut and then trimmed
C7_Witness ==
    /\ pc = "return"
    /\ Len(arg) > 60
    /\ Len(ret) = 59
    /\ \E i \in 1..Len(arg) : arg[i] = " "

(***************************************************************************)
(* The CSV written for bounded lists of Findings, and read back            *)
(***************************************************************************)
\* the most characters of the annotation text of the Finding that varies
MaxFieldLen == 2

\* the most Findings that go with it in one list
MaxOthers == 1

CsvAlphabet == {"a", ",", "\"", "\n", "\r"}

\* a Finding with the given annotation text and context
FindingWith(content, context) ==
    [file |-> <<"a",",","b",".","c">>, line |-> -4, marker |-> NOTE, content |-> content,
     context |-> context, priority |-> <<"L","o","w">>, owner |-> <<"Q","A","/","T","e","s","t","e","r">>,
     estimate_hours |-> 8, labels |-> <<"l","o","w",";","n","o","t","e">>]

CsvContexts == {FILE_NOT_FOUND, <<"1",":"," ","\"","s","1","\"","\n","2",":"," ","s",",","2">>}

OtherFindings == {FindingWith(<<"x">>, FILE_NOT_FOUND), FindingWith(<<"\"",",","\n">>, <<"1",":"," ","\"","\n","2",":"," ",",">>)}

CsvInit ==
    /\ pc = "call"
    /\ arg \in {before \o <<FindingWith(c, x)>> \o after :
                   c \in SeqsUpTo(CsvAlphabet, MaxFieldLen),
                   x \in CsvContexts,
                   before \in SeqsUpTo(OtherFindings, MaxOthers),
                   after \in SeqsUpTo(OtherFindings, MaxOthers)}
    /\ ret = <<>>
    /\ report = <<>> /\ items = <<>> /\ csvf = <<>> /\ attempts = <<>> /\ outdir = {}

\* lines 127-133 on the list, then list(csv.reader(...)) on the file
CsvCall ==
    /\ pc = "call"
    /\ csvf' = CsvText(arg)
    /\ ret' = ReadCsv(csvf')
    /\ pc' = "return"
    /\ UNCHANGED <<report, items, attempts, outdir, arg>>

SpecCsv == CsvInit /\ [][CsvCall]_vars

\* C10: reading the written CSV back gives the header row and then one row per
\* Finding, in order, whose fields are the Finding's id and values (numbers in
\* decimal), also when a text holds the delimiter, a quote or a line break.
C10_CsvRoundTrip ==
    pc = "return" =>
        /\ ~ret.err
        /\ Len(ret.rows) = Len(arg) + 1
        /\ ret.rows[1] = <<<<"i","d">>, <<"f","i","l","e">>, <<"l","i","n","e">>, <<"m","a","r","k","e","r">>, <<"c","o","n","t","e","n","t">>, <<"c","o","n","t","e","x","t">>,
                           <<"p","r","i","o","r","i","t","y">>, <<"o","w","n","e","r">>, <<"e","s","t","i","m","a","t","e","_","h","o","u","r","s">>, <<"l","a","b","e","l","s">>>>
        /\ \A k \in 1..Len(arg) :
              ret.rows[k + 1] = <<IntStr(k), arg[k].file, IntStr(arg[k].line), arg[k].marker,
                                  arg[k].content, arg[k].context, arg[k].priority,
                                  arg[k].owner, IntStr(arg[k].estimate_hours), arg[k].labels>>

\* C10 witness: a list of two Findings, the first with a delimiter and a line
\* break in its annotation text
C10_Witness ==
    /\ pc = "return"
    /\ Len(arg) >= 2
    /\ arg[1].content = <<",","\n">>
    /\ Len(ret.rows) = Len(arg) + 1


====
